---------------------------- MODULE Spec2Model ----------------------------
(***************************************************************************)
(* DarumaOtoshi2018 (src/DarumaOtoshi2018/Main.cpp): the Barrier / Level   *)
(* generation and collision model and the Title / Playing / GameOver scene *)
(* machine around it.                                                      *)
(*                                                                         *)
(* Numbers.  Every quantity of the program is a C++ double.  A double is   *)
(* modelled as a binary floating-point number whose significand is Prec    *)
(* bits wide (IEEE binary64 has 53) and whose smallest spacing is          *)
(* 2^-Frac: a value is held as an integer count of units of 2^-Frac, and   *)
(* every arithmetic result is rounded to the nearest representable value,  *)
(* ties to even (Fl, FlQ), exactly where the C++ expression rounds.        *)
(***************************************************************************)
EXTENDS Integers, Sequences, FiniteSets, TLC

VARIABLES
    barriers,     \* Level::barriers, front = Head
    mileage,      \* Level::mileage
    updates,      \* history: number of Level::update calls since Level()
    hitArg,       \* history: argument of the last Level::hit call (or -1)
    hitRet,       \* history: value returned by the last Level::hit call
    scene,        \* the scene the SceneManager runs
    direction,    \* Playing::direction
    targetAngle,  \* Playing::targetAngle
    playerPosX,   \* Data::playerPosX
    playerAngle,  \* Data::playerAngle
    highScore,    \* Data::highScore
    scoreFile,    \* the file "score" on disk
    running       \* Main is inside its update loop

levelVars == <<barriers, mileage, updates>>

queryVars == <<hitArg, hitRet>>

gameVars == <<scene, direction, targetAngle, playerPosX, playerAngle, highScore>>

fileVars == <<scoreFile, running>>

vars == <<barriers, mileage, updates, hitArg, hitRet,
          scene, direction, targetAngle, playerPosX, playerAngle, highScore,
          scoreFile, running>>

-----------------------------------------------------------------------------
(* double *)

Prec == 16
Frac == 16

One == 2 ^ Frac

Abs(x) == IF x < 0 THEN -x ELSE x

Sign(x) == IF x < 0 THEN -1 ELSE 1

RECURSIVE Quantum(_)
\* spacing of the representable values around magnitude a (a >= 0)
Quantum(a) == IF a < 2 ^ Prec THEN 1 ELSE 2 * Quantum(a \div 2)

\* n / d (n >= 0, d > 0) rounded to the nearest integer, ties to even
RoundHalfEven(n, d) ==
    LET k == n \div d
        r == n % d
    IN  IF 2 * r < d THEN k
        ELSE IF 2 * r > d THEN k + 1
        ELSE IF k % 2 = 0 THEN k ELSE k + 1

\* the double nearest to the rational n / d units (d > 0)
FlQ(n, d) ==
    LET a == Abs(n)
        q == Quantum(a \div d)
    IN  Sign(n) * q * RoundHalfEven(a, d * q)

\* the double nearest to x units
Fl(x) == FlQ(x, 1)

\* a decimal literal num/den of the source, as the compiler rounds it
Lit(num, den) == FlQ(num * One, den)

\* a * b of two doubles
Mul(a, b) == FlQ(a * b, One)

\* a / k of a double a and a whole-number literal k > 0 (100.0, 2.0)
DivBy(a, k) == FlQ(a, k)

\* a * k of a double a and a whole-number literal k (5.0)
MulBy(a, k) == Fl(a * k)

Min(a, b) == IF a < b THEN a ELSE b

Max(a, b) == IF a > b THEN a ELSE b

\* n / d rounded to the nearest integer, for either sign of n (d > 0)
RoundDiv(n, d) == Sign(n) * RoundHalfEven(Abs(n), d)

\* a * b, used for the powers of an angle: the product is formed in two
\* halves so that it stays inside the integers of the model checker
MulWide(a, b) ==
    LET x == Abs(a)
        y == Abs(b)
        t == x * (y \div 256) + (x * (y % 256)) \div 256
    IN  Sign(a) * Sign(b) * RoundHalfEven(t, 256)

\* std::sin and std::cos for |x| < pi / 2: the Taylor polynomial, within two
\* units of 2^-Frac of the exact value
Sin(x) ==
    LET x2 == MulWide(x, x)
        x3 == MulWide(x2, x)
        x5 == MulWide(x3, x2)
        x7 == MulWide(x5, x2)
        x9 == MulWide(x7, x2)
    IN  Fl(x - RoundDiv(x3, 6) + RoundDiv(x5, 120) - RoundDiv(x7, 5040)
             + RoundDiv(x9, 362880))

Cos(x) ==
    LET x2 == MulWide(x, x)
        x4 == MulWide(x2, x2)
        x6 == MulWide(x4, x2)
        x8 == MulWide(x6, x2)
    IN  Fl(One - RoundDiv(x2, 2) + RoundDiv(x4, 24) - RoundDiv(x6, 720)
             + RoundDiv(x8, 40320))

\* Math::Pi
Pi == Lit(355, 113)

-----------------------------------------------------------------------------
(* constants, Main.cpp 3-7 *)

holeWidth == Lit(1, 4)

barrierInterval == Lit(1, 2)

initialBarrierHeight == Lit(1, 10)

playerPosY == Lit(2, 10)

sideWallWidth == Lit(1, 10)

-----------------------------------------------------------------------------
(* struct Barrier *)

Type == {"Left", "Right", "Slit"}

Barrier(t, l, h, y) == [type |-> t, leftToHole |-> l, height |-> h, yPos |-> y]

\* mutant: the left edge of a Slit's hole is tested with <=
InHoleClosedLeft(b, x) ==
    CASE b.type = "Left"  -> x > b.leftToHole
      [] b.type = "Right" -> x < b.leftToHole
      [] b.type = "Slit"  -> b.leftToHole <= x /\ x < Fl(b.leftToHole + holeWidth)

\* the switch of Barrier::hit: TRUE when x is in the passable part
InHole(b, x) ==
    CASE b.type = "Left"  -> x > b.leftToHole
      [] b.type = "Right" -> x < b.leftToHole
      [] b.type = "Slit"  -> b.leftToHole < x /\ x < Fl(b.leftToHole + holeWidth)

\* mutant: the vertical test uses strict bounds
BarrierHitStrict(b, x) ==
    IF InHole(b, x) THEN FALSE
    ELSE b.yPos < playerPosY /\ playerPosY < Fl(b.yPos + b.height)

\* Barrier::hit, primary build
BarrierHit(b, x) ==
    IF InHole(b, x) THEN FALSE
    ELSE b.yPos <= playerPosY /\ playerPosY <= Fl(b.yPos + b.height)

\* Barrier::hit, alternate build (planePosY, strict bounds)
BarrierHitAlt(b, x) ==
    IF InHole(b, x) THEN FALSE
    ELSE b.yPos < playerPosY /\ playerPosY < Fl(b.yPos + b.height)

\* Barrier::isVisible
isVisible(b) == b.yPos > -b.height

-----------------------------------------------------------------------------
(* class Level *)

Back(bs) == bs[Len(bs)]

\* Random(0.4, 0.6): the values drawn in the model, the two ends of the range
Positions == {Lit(4, 10), Lit(6, 10)}

\* mutant: the switch on the previous type is dropped, any type can follow
TypesAfterAny(prev) == Type

\* the types RandomBool() / Random(0, 2) can pick after a barrier of type prev
TypesAfter(prev) ==
    CASE prev = "Left"  -> {"Right", "Slit"}
      [] prev = "Right" -> {"Left", "Slit"}
      [] prev = "Slit"  -> {"Left", "Right", "Slit"}

\* mutant: case Left forgets its assignment, leftToHole keeps its initial 0.0
LeftToHoleAfterUnset(prev, pos) ==
    CASE prev = "Left"  -> 0
      [] prev = "Right" -> Fl(One - pos)
      [] prev = "Slit"  -> Fl(pos - DivBy(holeWidth, 2))

\* leftToHole of the switch in Level::addBarrier
LeftToHoleAfter(prev, pos) ==
    CASE prev = "Left"  -> pos
      [] prev = "Right" -> Fl(One - pos)
      [] prev = "Slit"  -> Fl(pos - DivBy(holeWidth, 2))

\* height of a barrier generated at mileage m
HeightAt(m) ==
    LET factor == Min(DivBy(m, 100), One)
    IN  Fl(initialBarrierHeight + Mul(factor, Fl(Lit(3, 10) - initialBarrierHeight)))

\* mutant: the new barrier is placed holeWidth, not barrierInterval, below the back
addBarrierHoleWidth(bs, m, t, pos) ==
    Append(bs, Barrier(t,
                       LeftToHoleAfter(Back(bs).type, pos),
                       HeightAt(m),
                       Fl(Back(bs).yPos + holeWidth)))

\* Level::addBarrier with random outcomes t (type) and pos
addBarrier(bs, m, t, pos) ==
    Append(bs, Barrier(t,
                       LeftToHoleAfter(Back(bs).type, pos),
                       HeightAt(m),
                       Fl(Back(bs).yPos + barrierInterval)))

\* mutant: the initial Slit starts at the centre line instead of being centred on it
InitialBarriersOffCentre ==
    << Barrier("Slit", Lit(1, 2), initialBarrierHeight, One) >>

\* the initializer of Level::barriers
InitialBarriers ==
    << Barrier("Slit", Fl(Lit(1, 2) - DivBy(holeWidth, 2)), initialBarrierHeight, One) >>

RECURSIVE Construct(_, _)
\* the loop of Level::Level: every barrier sequence it can leave
Construct(bs, height) ==
    IF height < One
    THEN UNION { Construct(addBarrier(bs, 0, t, pos), Fl(height + barrierInterval)) :
                    t \in TypesAfter(Back(bs).type), pos \in Positions }
    ELSE {bs}

\* mutant: the constructor stops one barrier early
NewLevelsShort == {SubSeq(bs, 1, Len(bs) - 1) : bs \in Construct(InitialBarriers, 0)}

\* Level::Level
NewLevels == Construct(InitialBarriers, 0)

\* the barriers after the shift loop of Level::update
Shifted(bs, speedY) ==
    [i \in 1..Len(bs) |-> [bs[i] EXCEPT !.yPos = Fl(@ - speedY)]]

\* mutant: the right wall is not tested
LevelHitLeftWallOnly(bs, posX) ==
    IF posX < sideWallWidth THEN TRUE
    ELSE \E i \in 1..Len(bs) : BarrierHit(bs[i], posX)

\* Level::hit
LevelHit(bs, posX) ==
    IF posX < sideWallWidth \/ posX > Fl(One - sideWallWidth) THEN TRUE
    ELSE \E i \in 1..Len(bs) : BarrierHit(bs[i], posX)

-----------------------------------------------------------------------------
(* bounds of the model *)

\* Level::update calls made on one Level
MaxUpdates == 3

\* speedY arguments of Level::update
SpeedYs == {0, Lit(3, 10), Lit(8, 10), 50 * One}

\* posX arguments of Level::hit
ProbeXs == {Lit(5, 100), sideWallWidth - 1, sideWallWidth, Lit(275, 1000),
            Lit(375, 1000), Lit(375, 1000) + 1, Lit(4, 10), Lit(5, 10),
            Lit(6, 10), Lit(625, 1000) - 1, Lit(625, 1000), Lit(85, 100),
            Fl(One - sideWallWidth), Fl(One - sideWallWidth) + 1, Lit(95, 100)}

\* posX arguments of the Level::hit calls made between updates
HitXs == {Lit(5, 100), sideWallWidth, Lit(5, 10), Fl(One - sideWallWidth) + 1}

-----------------------------------------------------------------------------
(* the score file of Main *)

\* no file named "score" exists
NoFile == [exists |-> FALSE, readable |-> FALSE, value |-> 0]

\* the file exists but BinaryReader::read cannot deliver an int from it; value
\* is what the failed read leaves in its argument
ShortFile == [exists |-> TRUE, readable |-> FALSE, value |-> 7]

\* the file holds the int v
Stored(v) == [exists |-> TRUE, readable |-> TRUE, value |-> v]

\* the ints found in the file in the model
StoredScores == {-1, 2}

ScoreFiles == {NoFile, ShortFile} \cup {Stored(v) : v \in StoredScores}

\* mutant: the result of BinaryReader::read is not tested
LoadHighScoreUnchecked(f) == IF f.exists THEN f.value ELSE 0

\* Main: Data::highScore (initializer 0) after the load from the file f
LoadHighScore(f) ==
    IF f.exists
    THEN IF f.readable THEN f.value ELSE 0
    ELSE 0

-----------------------------------------------------------------------------
(* a Level driven by arbitrary calls *)

Init ==
    /\ barriers \in NewLevels
    /\ mileage = 0
    /\ updates = 0
    /\ hitArg = -1
    /\ hitRet = FALSE
    /\ scene = "Title"
    /\ direction = 0
    /\ targetAngle = 0
    /\ playerPosX = 0
    /\ playerAngle = 0
    /\ highScore = 0
    /\ scoreFile = NoFile
    /\ running = TRUE

\* mutant: the recycled barrier is generated before speedY is added to mileage
UpdateStaleMileage(speedY) ==
    /\ updates < MaxUpdates
    /\ updates' = updates + 1
    /\ mileage' = Fl(mileage + speedY)
    /\ LET shifted == Shifted(barriers, speedY)
       IN  IF ~isVisible(Head(shifted))
           THEN \E t \in TypesAfter(Back(shifted).type), pos \in Positions :
                    barriers' = addBarrier(Tail(shifted), mileage, t, pos)
           ELSE barriers' = shifted
    /\ UNCHANGED <<queryVars, gameVars, fileVars>>

\* mutant: the barriers are shifted by the accumulated mileage, not by speedY
UpdateByMileage(speedY) ==
    /\ updates < MaxUpdates
    /\ updates' = updates + 1
    /\ mileage' = Fl(mileage + speedY)
    /\ LET shifted == Shifted(barriers, mileage')
       IN  IF ~isVisible(Head(shifted))
           THEN \E t \in TypesAfter(Back(shifted).type), pos \in Positions :
                    barriers' = addBarrier(Tail(shifted), mileage', t, pos)
           ELSE barriers' = shifted
    /\ UNCHANGED <<queryVars, gameVars, fileVars>>

\* mutant: the front barrier is removed and nothing is appended
UpdateNoAppend(speedY) ==
    /\ updates < MaxUpdates
    /\ updates' = updates + 1
    /\ mileage' = Fl(mileage + speedY)
    /\ LET shifted == Shifted(barriers, speedY)
       IN  IF ~isVisible(Head(shifted))
           THEN barriers' = Tail(shifted)
           ELSE barriers' = shifted
    /\ UNCHANGED <<queryVars, gameVars, fileVars>>

\* Level::update(speedY)
Update(speedY) ==
    /\ updates < MaxUpdates
    /\ updates' = updates + 1
    /\ mileage' = Fl(mileage + speedY)
    /\ LET shifted == Shifted(barriers, speedY)
       IN  IF ~isVisible(Head(shifted))
           THEN \E t \in TypesAfter(Back(shifted).type), pos \in Positions :
                    barriers' = addBarrier(Tail(shifted), mileage', t, pos)
           ELSE barriers' = shifted
    /\ UNCHANGED <<queryVars, gameVars, fileVars>>

\* Level::hit(posX)
Hit(posX) ==
    /\ hitArg' = posX
    /\ hitRet' = LevelHit(barriers, posX)
    /\ UNCHANGED <<levelVars, gameVars, fileVars>>

Next == \E speedY \in SpeedYs : Update(speedY)

Spec == Init /\ [][Next]_vars

\* the same Level with Level::hit queries between the updates
QueryNext ==
    \/ \E speedY \in SpeedYs : Update(speedY)
    \/ \E posX \in HitXs : Hit(posX)

QuerySpec == Init /\ [][QueryNext]_vars

-----------------------------------------------------------------------------
(* a Level driven the way Playing::update drives it: level.hit(posX) on the
   barriers as they are and, unless it is true, level.update(speedY) *)

\* ticks made on one Level
MaxScroll == 11

\* speedY arguments with 0 < speedY <= initialBarrierHeight: the largest one
\* and the double before it
ScrollYs == {initialBarrierHeight - 1, initialBarrierHeight}

\* posX arguments: left of and inside the hole of the first Slit
ScrollXs == {Lit(3, 10), Lit(5, 10)}

\* the collision test and the scroll of one Playing tick; a tick whose test is
\* true ends the session
ScrollTick(posX, speedY) ==
    /\ ~hitRet
    /\ updates < MaxScroll
    /\ hitArg' = posX
    /\ hitRet' = LevelHit(barriers, posX)
    /\ IF LevelHit(barriers, posX)
       THEN UNCHANGED levelVars
       ELSE /\ updates' = updates + 1
            /\ mileage' = Fl(mileage + speedY)
            /\ LET shifted == Shifted(barriers, speedY)
               IN  IF ~isVisible(Head(shifted))
                   THEN \E t \in TypesAfter(Back(shifted).type), pos \in Positions :
                            barriers' = addBarrier(Tail(shifted), mileage', t, pos)
                   ELSE barriers' = shifted
    /\ UNCHANGED <<gameVars, fileVars>>

ScrollNext == \E posX \in ScrollXs, speedY \in ScrollYs : ScrollTick(posX, speedY)

ScrollSpec == Init /\ [][ScrollNext]_vars

-----------------------------------------------------------------------------
(* the scenes: Title, Playing, GameOver under the SceneManager *)

\* Playing ticks of one session, and the first ticks of it in which the
\* left / right keys are pressed
MaxTicks == 270

SteerTicks == 1

maxDirection == 3

\* Playing::update, the table angles
angles(i) ==
    CASE i = 0 -> 0
      [] i = 1 -> DivBy(Pi, 6)
      [] i = 2 -> DivBy(Pi, 4)
      [] i = 3 -> DivBy(Pi, 3)

\* static_cast<int> of a double: the fraction is dropped, toward zero
ToInt(x) == Sign(x) * (Abs(x) \div One)

\* mutant: the product is rounded to the nearest int
getScoreRounded(m) == ToInt(Fl(MulBy(m, 5) + Lit(1, 2)))

\* Data::getScore for a Level of mileage m
getScore(m) == ToInt(MulBy(m, 5))

\* mutant: the Playing object is reused, its members keep their values
EnterPlayingKeepsSteering ==
    /\ scene' = "Playing"
    /\ barriers' \in NewLevels
    /\ mileage' = 0
    /\ updates' = 0
    /\ playerPosX' = Lit(1, 2)
    /\ playerAngle' = 0
    /\ UNCHANGED <<direction, targetAngle, highScore, queryVars, fileVars>>

\* Playing::Playing, run by the SceneManager when changeScene(Scene::Playing)
\* takes effect, before the first Playing::update
EnterPlaying ==
    /\ scene' = "Playing"
    /\ barriers' \in NewLevels
    /\ mileage' = 0
    /\ updates' = 0
    /\ playerPosX' = Lit(1, 2)
    /\ playerAngle' = 0
    /\ direction' = 0
    /\ targetAngle' = 0
    /\ UNCHANGED <<highScore, queryVars, fileVars>>

\* Title::update; anyKey is Data::anyKeyIsDown()
TitleUpdate(anyKey) ==
    /\ scene = "Title"
    /\ IF anyKey THEN EnterPlaying ELSE UNCHANGED vars

\* mutant: GameOver goes back to the Title scene
GameOverUpdateToTitle(anyKey) ==
    /\ scene = "GameOver"
    /\ IF anyKey
       THEN /\ scene' = "Title"
            /\ UNCHANGED <<levelVars, queryVars, fileVars, direction, targetAngle,
                           playerPosX, playerAngle, highScore>>
       ELSE UNCHANGED vars

\* GameOver::update
GameOverUpdate(anyKey) ==
    /\ scene = "GameOver"
    /\ IF anyKey THEN EnterPlaying ELSE UNCHANGED vars

\* mutant: the keys are not compared, left is served first
SteeredLeftFirst(dir, keyLeft, keyRight) ==
    IF keyLeft THEN Max(dir - 1, -maxDirection)
    ELSE IF keyRight THEN Min(dir + 1, maxDirection)
    ELSE dir

\* direction after the key test of Playing::update
Steered(dir, keyLeft, keyRight) ==
    IF keyLeft # keyRight
    THEN IF keyLeft THEN Max(dir - 1, -maxDirection) ELSE Min(dir + 1, maxDirection)
    ELSE dir

\* targetAngle after the key test of Playing::update
Target(dir, old, keyLeft, keyRight) ==
    IF keyLeft # keyRight
    THEN (IF dir > 0 THEN 1 ELSE -1) * angles(Abs(dir))
    ELSE old

\* playerAngle after its smoothing step towards the target tgt
Smoothed(angle, tgt) == Fl(angle + Mul(Lit(1, 10), Fl(tgt - angle)))

\* speed of the tick at mileage m
Speed(m) == Fl(Mul(Lit(5, 100000), m) + Lit(5, 1000))

\* mutant: the scroll amount is taken along the sine
SpeedYSin(angle, speed) == Mul(Sin(angle), speed)

\* the argument Playing::update passes to Level::update
SpeedY(angle, speed) == Mul(Cos(angle), speed)

\* mutant: the high score is overwritten by the current score
HighScoreAfterLast(m, hs) == getScore(m)

\* Data::highScore after the last statement of Playing::update, for the
\* Level's mileage m and the high score hs before it
HighScoreAfter(m, hs) == Max(getScore(m), hs)

\* mutant: the collision is tested before the token is moved
PlayingUpdateHitBeforeMove(keyLeft, keyRight) ==
    /\ scene = "Playing"
    /\ LET dir   == Steered(direction, keyLeft, keyRight)
           tgt   == Target(dir, targetAngle, keyLeft, keyRight)
           angle == Smoothed(playerAngle, tgt)
           speed == Speed(mileage)
           posX  == Fl(playerPosX + Mul(Sin(angle), speed))
           speedY == SpeedY(angle, speed)
       IN  /\ direction' = dir
           /\ targetAngle' = tgt
           /\ playerAngle' = angle
           /\ playerPosX' = posX
           /\ IF LevelHit(barriers, playerPosX)
              THEN /\ scene' = "GameOver"
                   /\ UNCHANGED <<levelVars, highScore>>
              ELSE /\ scene' = scene
                   /\ updates' = updates + 1
                   /\ mileage' = Fl(mileage + speedY)
                   /\ LET shifted == Shifted(barriers, speedY)
                      IN  IF ~isVisible(Head(shifted))
                          THEN \E t \in TypesAfter(Back(shifted).type), pos \in Positions :
                                   barriers' = addBarrier(Tail(shifted), mileage', t, pos)
                          ELSE barriers' = shifted
                   /\ highScore' = HighScoreAfter(mileage', highScore)
    /\ UNCHANGED <<queryVars, fileVars>>

\* mutant: the tick does not return after changeScene(Scene::GameOver)
PlayingUpdateNoReturn(keyLeft, keyRight) ==
    /\ scene = "Playing"
    /\ LET dir   == Steered(direction, keyLeft, keyRight)
           tgt   == Target(dir, targetAngle, keyLeft, keyRight)
           angle == Smoothed(playerAngle, tgt)
           speed == Speed(mileage)
           posX  == Fl(playerPosX + Mul(Sin(angle), speed))
           speedY == SpeedY(angle, speed)
       IN  /\ direction' = dir
           /\ targetAngle' = tgt
           /\ playerAngle' = angle
           /\ playerPosX' = posX
           /\ scene' = IF LevelHit(barriers, posX) THEN "GameOver" ELSE scene
           /\ updates' = IF LevelHit(barriers, posX) THEN updates ELSE updates + 1
           /\ mileage' = Fl(mileage + speedY)
           /\ LET shifted == Shifted(barriers, speedY)
              IN  IF ~isVisible(Head(shifted))
                  THEN \E t \in TypesAfter(Back(shifted).type), pos \in Positions :
                           barriers' = addBarrier(Tail(shifted), mileage', t, pos)
                  ELSE barriers' = shifted
           /\ highScore' = HighScoreAfter(mileage', highScore)
    /\ UNCHANGED <<queryVars, fileVars>>

\* Playing::update (primary build); updates counts the ticks of the session
\* that reached level.update
PlayingUpdate(keyLeft, keyRight) ==
    /\ scene = "Playing"
    /\ LET dir   == Steered(direction, keyLeft, keyRight)
           tgt   == Target(dir, targetAngle, keyLeft, keyRight)
           angle == Smoothed(playerAngle, tgt)
           speed == Speed(mileage)
           posX  == Fl(playerPosX + Mul(Sin(angle), speed))
           speedY == SpeedY(angle, speed)
       IN  /\ direction' = dir
           /\ targetAngle' = tgt
           /\ playerAngle' = angle
           /\ playerPosX' = posX
           /\ IF LevelHit(barriers, posX)
              THEN /\ scene' = "GameOver"
                   /\ UNCHANGED <<levelVars, highScore>>
              ELSE /\ scene' = scene
                   /\ updates' = updates + 1
                   /\ mileage' = Fl(mileage + speedY)
                   /\ LET shifted == Shifted(barriers, speedY)
                      IN  IF ~isVisible(Head(shifted))
                          THEN \E t \in TypesAfter(Back(shifted).type), pos \in Positions :
                                   barriers' = addBarrier(Tail(shifted), mileage', t, pos)
                          ELSE barriers' = shifted
                   /\ highScore' = HighScoreAfter(mileage', highScore)
    /\ UNCHANGED <<queryVars, fileVars>>

\* a session of at most MaxTicks ticks, steered in its first SteerTicks ticks
Tick(keyLeft, keyRight) ==
    /\ updates < MaxTicks
    /\ updates >= SteerTicks => ~keyLeft /\ ~keyRight
    /\ PlayingUpdate(keyLeft, keyRight)

GameNext ==
    \/ \E anyKey \in BOOLEAN : TitleUpdate(anyKey)
    \/ \E keyLeft \in BOOLEAN, keyRight \in BOOLEAN : Tick(keyLeft, keyRight)
    \/ \E anyKey \in BOOLEAN : GameOverUpdate(anyKey)

\* Main: the Data is constructed (its Level with it) and the manager starts in Title
GameSpec == Init /\ [][GameNext]_vars

-----------------------------------------------------------------------------
(* the first ticks of a session under every combination of the keys *)

\* ticks of the session
MaxSteer == 5

SteerTick(keyLeft, keyRight) ==
    /\ updates < MaxSteer
    /\ PlayingUpdate(keyLeft, keyRight)

\* the token cannot reach a wall or a barrier within MaxSteer ticks, so
\* GameOver::update has no part in these behaviours
SteerNext ==
    \/ \E anyKey \in BOOLEAN : TitleUpdate(anyKey)
    \/ \E keyLeft \in BOOLEAN, keyRight \in BOOLEAN : SteerTick(keyLeft, keyRight)

SteerSpec == Init /\ [][SteerNext]_vars

-----------------------------------------------------------------------------
(* sessions steered at two ticks: away from the centre line and back *)

\* ticks of the session, and the ticks at which a key can be pressed
PlayTicks == 230

SteerAt == {20, 46}

PlayTick(keyLeft, keyRight) ==
    /\ updates < PlayTicks
    /\ updates \notin SteerAt => ~keyLeft /\ ~keyRight
    /\ PlayingUpdate(keyLeft, keyRight)

PlayNext ==
    \/ \E anyKey \in BOOLEAN : TitleUpdate(anyKey)
    \/ \E keyLeft \in BOOLEAN, keyRight \in BOOLEAN : PlayTick(keyLeft, keyRight)
    \/ \E anyKey \in BOOLEAN : GameOverUpdate(anyKey)

PlaySpec == Init /\ [][PlayNext]_vars

-----------------------------------------------------------------------------
(* Main: the load of the score file, the update loop, the save *)

\* ticks of a session
MainTicks == 170

\* Main up to the first mgr.update(): Data is constructed, the score is loaded
MainInit ==
    /\ barriers \in NewLevels
    /\ mileage = 0
    /\ updates = 0
    /\ hitArg = -1
    /\ hitRet = FALSE
    /\ scene = "Title"
    /\ direction = 0
    /\ targetAngle = 0
    /\ playerPosX = 0
    /\ playerAngle = 0
    /\ scoreFile \in ScoreFiles
    /\ highScore = LoadHighScore(scoreFile)
    /\ running = TRUE

MainTick(keyLeft, keyRight) ==
    /\ updates < MainTicks
    /\ updates >= SteerTicks => ~keyLeft /\ ~keyRight
    /\ PlayingUpdate(keyLeft, keyRight)

\* Main: the loop ends (System::Update() or mgr.update() is false) and the
\* high score is written over the file
Shutdown ==
    /\ running
    /\ running' = FALSE
    /\ scoreFile' = Stored(highScore)
    /\ UNCHANGED <<levelVars, queryVars, gameVars>>

MainNext ==
    \/ running /\ \E anyKey \in BOOLEAN : TitleUpdate(anyKey)
    \/ running /\ \E keyLeft \in BOOLEAN, keyRight \in BOOLEAN : MainTick(keyLeft, keyRight)
    \/ running /\ \E anyKey \in BOOLEAN : GameOverUpdate(anyKey)
    \/ Shutdown

MainSpec == MainInit /\ [][MainNext]_vars

-----------------------------------------------------------------------------
(* properties *)

Pairs(bs) == 1 .. (Len(bs) - 1)

\* stored distance between barrier i and the one after it
Spacing(bs, i) == bs[i + 1].yPos - bs[i].yPos

\* spacing of the doubles around y
Ulp(y) == Quantum(Abs(y))

\* the front barrier is no longer the Slit the Level was constructed with
Recycled == Head(barriers).leftToHole # Head(InitialBarriers).leftToHole

\* update(speedY) is about to remove the front barrier
Recycles(speedY) == ~isVisible(Head(Shifted(barriers, speedY)))

\* C1 as stated: every adjacent pair of barriers satisfies
\* next.yPos - prev.yPos == barrierInterval exactly, in every reachable state.
C1_ExactSpacing ==
    \A i \in Pairs(barriers) : Fl(barriers[i + 1].yPos - barriers[i].yPos) = barrierInterval

\* C1 amended: a constructed Level is spaced exactly by barrierInterval; an
\* update moves the spacing of a pair that stays by at most the two roundings
\* of yPos -= speedY (half a unit in the last place each), and a recycled
\* barrier is put at the double nearest to back.yPos + barrierInterval.
C1_SpacingUpToRounding ==
    /\ \A i \in Pairs(barriers) : Spacing(barriers, i) = barrierInterval
    /\ [][\A speedY \in SpeedYs : Update(speedY) =>
            LET n == Len(barriers)
                k == IF Recycles(speedY) THEN 1 ELSE 0
            IN  /\ Len(barriers') = n
                /\ \A i \in 1 .. (n - 1 - k) :
                      2 * Abs(Spacing(barriers', i) - Spacing(barriers, i + k))
                         <= Ulp(barriers'[i].yPos) + Ulp(barriers'[i + 1].yPos)
                /\ k = 1 =>
                      2 * Abs(Spacing(barriers', n - 1) - barrierInterval)
                         <= Ulp(barriers'[n].yPos)]_vars

\* C1 witness: after a recycling update a pair is no longer spaced by barrierInterval
C1_Witness ==
    /\ Recycled
    /\ \E i \in Pairs(barriers) : Spacing(barriers, i) # barrierInterval

\* C2: no Left is immediately followed by a Left and no Right by a Right, in
\* every reachable state and for every random outcome.
C2_Alternation ==
    \A i \in Pairs(barriers) :
        /\ ~(barriers[i].type = "Left" /\ barriers[i + 1].type = "Left")
        /\ ~(barriers[i].type = "Right" /\ barriers[i + 1].type = "Right")

\* C2 witness: after recycling, a Left is followed by a Right and that by a Slit
C2_Witness ==
    /\ Recycled
    /\ barriers[1].type = "Left"
    /\ barriers[2].type = "Right"
    /\ barriers[3].type = "Slit"

\* the playable band [sideWallWidth, 1 - sideWallWidth]
InBand(x) == sideWallWidth <= x /\ x <= Fl(One - sideWallWidth)

\* the barrier's vertical band overlaps the token line (closed bounds)
OnTokenLine(b) == b.yPos <= playerPosY /\ playerPosY <= Fl(b.yPos + b.height)

\* a point just inside the passable part of each barrier
HolePoints(bs) ==
    { IF bs[i].type = "Right" THEN bs[i].leftToHole - 1 ELSE bs[i].leftToHole + 1 :
        i \in 1 .. Len(bs) }

\* C3: in every reachable state some posX of the playable band is not hit:
\* every barrier's passable part meets the band and at most one barrier is
\* on the token line.
C3_Solvable ==
    /\ \E x \in HolePoints(barriers) : InBand(x) /\ ~LevelHit(barriers, x)
    /\ \A i \in 1 .. Len(barriers) :
          \E x \in HolePoints(barriers) : InBand(x) /\ InHole(barriers[i], x)
    /\ Cardinality({i \in 1 .. Len(barriers) : OnTokenLine(barriers[i])}) <= 1

\* C3 witness: a generated Right barrier is on the token line and blocks the centre
C3_Witness ==
    /\ Recycled
    /\ \E i \in 1 .. Len(barriers) :
          /\ barriers[i].type = "Right"
          /\ OnTokenLine(barriers[i])
          /\ LevelHit(barriers, Lit(1, 2))

\* C4 as stated: update(0) changes no yPos, does not change mileage and
\* recycles nothing, on every reachable state.
C4_UpdateZeroIdempotent ==
    [][Update(0) => barriers' = barriers /\ mileage' = mileage]_vars

\* C4 amended: update(0) changes neither mileage nor the yPos of any barrier
\* it keeps, and it recycles exactly when the front barrier is already
\* invisible (update removes one barrier per call, so an earlier update with
\* a speedY above barrierInterval can leave such a front); on a state whose
\* front barrier is visible update(0) changes nothing.
C4_UpdateZeroKeepsVisibleFront ==
    [][Update(0) =>
        /\ mileage' = mileage
        /\ isVisible(Head(barriers)) => barriers' = barriers
        /\ ~isVisible(Head(barriers)) =>
              /\ Len(barriers') = Len(barriers)
              /\ \A i \in Pairs(barriers) : barriers'[i] = barriers[i + 1]]_vars

\* C4 witness: update(0) has run on a Level with mileage 0.3 and a visible front
C4_Witness ==
    /\ updates = 2
    /\ mileage = Lit(3, 10)
    /\ isVisible(Head(barriers))

\* C5: a freshly constructed Level has mileage 0, at least 2 barriers, and
\* its front is the centred Slit: yPos 1.0, height 0.1, leftToHole 0.375.
C5_FreshLevel ==
    updates = 0 =>
        /\ mileage = 0
        /\ Len(barriers) >= 2
        /\ Head(barriers).type = "Slit"
        /\ Head(barriers).yPos = One
        /\ Head(barriers).height = Lit(1, 10)
        /\ Head(barriers).leftToHole = Lit(375, 1000)

\* C5 witness: a fresh Level of three barriers whose generated ones are Right, Left
C5_Witness ==
    /\ updates = 0
    /\ Len(barriers) = 3
    /\ barriers[2].type = "Right"
    /\ barriers[3].type = "Left"

\* the x positions a barrier is probed at: the probes and the edges of its hole
EdgeXs(b) ==
    ProbeXs \cup { b.leftToHole + d : d \in {-1, 0, 1} }
            \cup { Fl(b.leftToHole + holeWidth) + d : d \in {-1, 0, 1} }

\* C6: Level::hit(posX) returns true iff posX < 0.1, or posX > 0.9, or some
\* barrier of the sequence reports Barrier::hit(posX); so it is true outside
\* [0.1, 0.9] whatever the barriers are; and it changes no state.
C6_LevelHit ==
    [][\A posX \in HitXs : Hit(posX) =>
        /\ hitRet' = (\/ posX < Lit(1, 10)
                      \/ posX > Lit(9, 10)
                      \/ \E i \in 1 .. Len(barriers) : BarrierHit(barriers[i], posX))
        /\ (posX < Lit(1, 10) \/ posX > Lit(9, 10)) => hitRet' = TRUE
        /\ barriers' = barriers
        /\ mileage' = mileage]_vars

\* C6 witness: hit returned true for a posX right of 0.9 while no barrier is on the token line
C6_Witness ==
    /\ hitArg > Lit(9, 10)
    /\ hitRet = TRUE
    /\ updates > 0
    /\ \A i \in 1 .. Len(barriers) : ~OnTokenLine(barriers[i])

\* C7 as stated: for a Slit on the token line, hit(x) is false exactly for
\* leftToHole <= x < leftToHole + holeWidth.
C7_HalfOpenHole ==
    \A i \in 1 .. Len(barriers) :
        barriers[i].type = "Slit" /\ OnTokenLine(barriers[i]) =>
            \A x \in EdgeXs(barriers[i]) :
                BarrierHit(barriers[i], x) =
                    ~(barriers[i].leftToHole <= x
                        /\ x < Fl(barriers[i].leftToHole + holeWidth))

\* C7 amended: the hole of a Slit is the open interval
\* (leftToHole, leftToHole + holeWidth), in both builds: when the Slit's band
\* is on the token line (closed bounds in the primary build, strict in the
\* alternate one) hit(x) is false exactly for leftToHole < x < leftToHole +
\* holeWidth; x == leftToHole is solid.
C7_OpenHole ==
    \A i \in 1 .. Len(barriers) :
        LET b == barriers[i]
            open(x) == b.leftToHole < x /\ x < Fl(b.leftToHole + holeWidth)
        IN  b.type = "Slit" =>
              /\ OnTokenLine(b) =>
                    /\ BarrierHit(b, b.leftToHole)
                    /\ \A x \in EdgeXs(b) : BarrierHit(b, x) = ~open(x)
              /\ (b.yPos < playerPosY /\ playerPosY < Fl(b.yPos + b.height)) =>
                    /\ BarrierHitAlt(b, b.leftToHole)
                    /\ \A x \in EdgeXs(b) : BarrierHitAlt(b, x) = ~open(x)

\* C7 witness: a generated Slit is strictly on the token line
C7_Witness ==
    /\ Recycled
    /\ \E i \in 1 .. Len(barriers) :
          /\ barriers[i].type = "Slit"
          /\ barriers[i].yPos < playerPosY
          /\ playerPosY < Fl(barriers[i].yPos + barriers[i].height)

\* the solid part of a barrier, by type
Solid(b, x) ==
    \/ b.type = "Left" /\ x <= b.leftToHole
    \/ b.type = "Right" /\ x >= b.leftToHole
    \/ b.type = "Slit" /\ (x <= b.leftToHole \/ x >= Fl(b.leftToHole + holeWidth))

\* C8: in the primary build Barrier::hit(x) is true iff x is in the solid
\* part of the barrier's type and yPos <= 0.2 <= yPos + height.
C8_BarrierHit ==
    \A i \in 1 .. Len(barriers) :
        \A x \in EdgeXs(barriers[i]) :
            BarrierHit(barriers[i], x) =
                (/\ Solid(barriers[i], x)
                 /\ barriers[i].yPos <= Lit(2, 10)
                 /\ Lit(2, 10) <= Fl(barriers[i].yPos + barriers[i].height))

\* C8 witness: a Left barrier whose bottom edge is exactly on the token line hits at x = leftToHole
C8_Witness ==
    \E i \in 1 .. Len(barriers) :
        /\ barriers[i].type = "Left"
        /\ Fl(barriers[i].yPos + barriers[i].height) = playerPosY
        /\ BarrierHit(barriers[i], barriers[i].leftToHole)

\* C9: a barrier generated at mileage m has height 0.1 + min(m/100, 1) * 0.2
\* (to within the rounding of the double expression), exactly 0.3 for
\* m >= 100; m is the mileage after the update's speedY was added, and 0 in
\* the constructor.
C9_Height ==
    /\ updates = 0 => \A i \in 2 .. Len(barriers) : barriers[i].height = Lit(1, 10)
    /\ [][\A speedY \in SpeedYs : Update(speedY) /\ Recycles(speedY) =>
            LET h == Back(barriers').height
                m == mileage'
            IN  /\ Abs(1000 * h - (100 * One + 2 * Min(m, 100 * One))) <= 1000 * 3
                /\ m >= 100 * One => h = Lit(3, 10)]_vars

\* C9 witness: a barrier of height 0.3 was generated at a mileage of at least 100
C9_Witness ==
    /\ Recycled
    /\ mileage >= 100 * One
    /\ Back(barriers).height = Lit(3, 10)

\* C10: the scene machine starts in Title; the scene changes only by
\* Title->Playing, Playing->GameOver and GameOver->Playing, so Title is never
\* entered again and GameOver is entered only from Playing; Title and
\* GameOver change scene only on a tick whose anyKeyIsDown() is true.
C10_SceneMachine ==
    /\ scene = "Title"
    /\ [][/\ scene' # scene =>
                <<scene, scene'>> \in {<<"Title", "Playing">>,
                                       <<"Playing", "GameOver">>,
                                       <<"GameOver", "Playing">>}
          /\ scene # "Title" => scene' # "Title"
          /\ \A anyKey \in BOOLEAN :
                (TitleUpdate(anyKey) \/ GameOverUpdate(anyKey)) /\ scene' # scene
                    => anyKey = TRUE]_vars

\* C10 witness: Playing was entered again from GameOver (a new Level, an earlier score kept)
C10_Witness ==
    /\ scene = "Playing"
    /\ updates = 0
    /\ mileage = 0
    /\ highScore > 0

\* C11: a Playing tick requests the change to GameOver if and only if
\* Level::hit is true of the token's x after this tick's displacement, tested
\* on the barriers as the previous tick left them: the test comes after the
\* token is moved and before Level::update scrolls the barriers.
C11_HitAfterMoveBeforeScroll ==
    [][\A keyLeft \in BOOLEAN, keyRight \in BOOLEAN :
          PlayingUpdate(keyLeft, keyRight) =>
            /\ playerPosX' = Fl(playerPosX + Mul(Sin(playerAngle'), Speed(mileage)))
            /\ (scene' = "GameOver") = LevelHit(barriers, playerPosX')
            /\ (scene' = "Playing") = ~LevelHit(barriers, playerPosX')]_vars

\* C11 witness: GameOver was requested for a token inside the band, under a
\* barrier that is on the token line
C11_Witness ==
    /\ scene = "GameOver"
    /\ InBand(playerPosX)
    /\ \E i \in 1 .. Len(barriers) : BarrierHit(barriers[i], playerPosX)

\* C12: every step that enters Playing (from Title or from GameOver) leaves a
\* fresh Level (mileage 0, front the centred Slit at yPos 1.0), the token at
\* x = 0.5, playerAngle 0, direction 0 and targetAngle 0, whatever they were
\* before, and does not change highScore.
C12_PlayingEntry ==
    [][scene # "Playing" /\ scene' = "Playing" =>
          /\ barriers' \in NewLevels
          /\ mileage' = 0
          /\ Head(barriers') = Barrier("Slit", Lit(375, 1000), Lit(1, 10), One)
          /\ playerPosX' = Lit(1, 2)
          /\ playerAngle' = 0
          /\ direction' = 0
          /\ targetAngle' = 0
          /\ highScore' = highScore]_vars

\* C12 witness: Playing was entered again after a session that was steered
\* into a wall (its score of 3 is kept, its steering is not)
C12_Witness ==
    /\ scene = "Playing"
    /\ updates = 0
    /\ highScore = 3
    /\ direction = 0
    /\ targetAngle = 0
    /\ playerPosX = Lit(1, 2)

\* C13: direction is an integer in [-3, 3] after any sequence of Playing
\* ticks; a tick with exactly one of left / right moves it by exactly 1
\* toward that side unless it is at the bound (then it stays); a tick with
\* both or neither leaves it unchanged; so the index |direction| into the
\* table of angles is in 0..3.
C13_DirectionClamped ==
    /\ direction \in -3 .. 3
    /\ [][\A keyLeft \in BOOLEAN, keyRight \in BOOLEAN :
            PlayingUpdate(keyLeft, keyRight) =>
              /\ direction' \in -3 .. 3
              /\ Abs(direction') \in 0 .. 3
              /\ keyLeft /\ ~keyRight =>
                    direction' = IF direction = -3 THEN -3 ELSE direction - 1
              /\ keyRight /\ ~keyLeft =>
                    direction' = IF direction = 3 THEN 3 ELSE direction + 1
              /\ keyLeft = keyRight => direction' = direction]_vars

\* C13 witness: direction is at the bound 3 after more than three ticks
C13_Witness ==
    /\ scene = "Playing"
    /\ direction = 3
    /\ targetAngle = angles(3)
    /\ updates > 3

\* C14: within a session mileage starts at 0 and every Level::update of a
\* Playing tick adds that tick's speed * cos(angle), which is strictly
\* positive (|angle| never exceeds pi / 3), so mileage never decreases and
\* is the running sum of the speedY values passed to update.
C14_MileageMonotone ==
    /\ mileage = 0
    /\ \A i \in 0 .. maxDirection : Cos(angles(i)) > 0 /\ Cos(-angles(i)) > 0
    /\ [][/\ scene' = "Playing" /\ scene # "Playing" => mileage' = 0
          /\ scene' = scene => mileage' >= mileage
          /\ Abs(playerAngle') <= angles(maxDirection)
          /\ \A keyLeft \in BOOLEAN, keyRight \in BOOLEAN :
                PlayingUpdate(keyLeft, keyRight) /\ scene' = "Playing" =>
                   LET speedY == SpeedY(playerAngle', Speed(mileage))
                   IN  /\ speedY > 0
                       /\ mileage' = Fl(mileage + speedY)
                       /\ mileage' > mileage]_vars

\* C14 witness: a steered session whose mileage has passed 0.5
C14_Witness ==
    /\ scene = "Playing"
    /\ direction # 0
    /\ playerAngle # 0
    /\ mileage > Lit(1, 2)

\* C15: Level::update changes the membership of the sequence only by
\* recycling: it removes the front barrier exactly when that barrier is not
\* visible after this update's shift (yPos <= -height), never more than one
\* barrier per call and never another one, and appends exactly one new
\* barrier at the back exactly when it removes one; so the sequence is never
\* empty and keeps the length it had after construction.
C15_RecyclingOnly ==
    /\ Len(barriers) \in {Len(bs) : bs \in NewLevels}
    /\ Len(barriers) >= 1
    /\ [][\A speedY \in SpeedYs : Update(speedY) =>
            LET n == Len(barriers)
                shifted == Shifted(barriers, speedY)
                gone == Head(shifted).yPos <= -Head(shifted).height
                same(b, c) == /\ b.type = c.type
                              /\ b.leftToHole = c.leftToHole
                              /\ b.height = c.height
            IN  /\ Len(barriers') = n
                /\ n >= 1
                /\ gone =>
                      /\ \A i \in 1 .. (n - 1) : barriers'[i] = shifted[i + 1]
                      /\ Back(barriers').yPos = Fl(Back(shifted).yPos + barrierInterval)
                      /\ Back(barriers').type \in TypesAfter(Back(shifted).type)
                /\ ~gone =>
                      \A i \in 1 .. n : /\ same(barriers'[i], barriers[i])
                                        /\ barriers'[i].yPos = Fl(barriers[i].yPos - speedY)]_vars

\* C15 witness: an update removed one barrier and left a front that is not
\* visible either
C15_Witness ==
    /\ updates > 0
    /\ Recycled
    /\ Len(barriers) = 3
    /\ ~isVisible(Head(barriers))

\* the lower edge of the last barrier of the sequence, as the program adds it up
BackEdge == Fl(Back(barriers).yPos + Back(barriers).height)

\* how far the stored distance between the front and the back barrier is from
\* the whole number of barrierIntervals between them
Drift ==
    Abs(Back(barriers).yPos - Head(barriers).yPos
          - (Len(barriers) - 1) * barrierInterval)

IsFloor(k, x) == k * One <= x /\ x < (k + 1) * One

\* C17: getScore() is floor(mileage * 5), the product being the double one,
\* for every mileage a Level holds (mileage 1.0 gives 5, mileage 0.19 gives
\* 0), so the score does not decrease when mileage does not.
C17_ScoreIsFloor ==
    /\ IsFloor(getScore(mileage), MulBy(mileage, 5))
    /\ [][/\ getScore(One) = 5
          /\ getScore(Lit(19, 100)) = 0
          /\ IsFloor(getScore(mileage'), MulBy(mileage', 5))
          /\ mileage' >= mileage => getScore(mileage') >= getScore(mileage)
          /\ \A keyLeft \in BOOLEAN, keyRight \in BOOLEAN :
                PlayingUpdate(keyLeft, keyRight) /\ scene' = "Playing" =>
                    /\ IsFloor(highScore', MulBy(mileage', 5)) \/ highScore' = highScore
                    /\ highScore' >= getScore(mileage')]_vars

\* C17 witness: the mileage has just passed 1.0 and the score shown is 5
C17_Witness ==
    /\ scene = "Playing"
    /\ mileage >= One
    /\ mileage < Lit(101, 100)
    /\ getScore(mileage) = 5
    /\ highScore = 5

\* C18: the score file never stops the program: with no file, or with a
\* file whose read fails, the session starts with highScore = 0; with a file
\* whose read succeeds it starts with the stored value; in each case the
\* scene machine starts in Title; the file is not touched while the loop
\* runs, and at shutdown the current highScore is written over whatever the
\* file held.
C18_ScorePersistence ==
    /\ scene = "Title"
    /\ running = TRUE
    /\ ~scoreFile.exists => highScore = 0
    /\ scoreFile.exists /\ ~scoreFile.readable => highScore = 0
    /\ scoreFile.exists /\ scoreFile.readable => highScore = scoreFile.value
    /\ [][/\ running /\ running' => scoreFile' = scoreFile
          /\ running /\ ~running' =>
                /\ scoreFile'.exists
                /\ scoreFile'.readable
                /\ scoreFile'.value = highScore
                /\ highScore' = highScore
          /\ running = TRUE]_vars

\* C18 witness: the program was played to a high score of 3 and was closed
\* in GameOver; the file now holds 3
C18_Witness ==
    /\ ~running
    /\ scene = "GameOver"
    /\ highScore = 3
    /\ scoreFile = Stored(3)

\* C19: in the primary build a Playing tick whose collision test is true
\* leaves the Level and the high score untouched: mileage, the barrier
\* sequence with every yPos, and highScore are the same after the tick as
\* before it, so getScore() in GameOver is the score of the last tick
\* without a hit.
C19_HitTickFrame ==
    [][\A keyLeft \in BOOLEAN, keyRight \in BOOLEAN :
          PlayingUpdate(keyLeft, keyRight) /\ LevelHit(barriers, playerPosX') =>
            /\ scene' = "GameOver"
            /\ mileage' = mileage
            /\ barriers' = barriers
            /\ highScore' = highScore
            /\ getScore(mileage') = getScore(mileage)
            /\ highScore' >= getScore(mileage')]_vars

\* C19 witness: the first session ended on a barrier with the score it had
\* before the hit, 6 or more
C19_Witness ==
    /\ scene = "GameOver"
    /\ getScore(mileage) >= 6
    /\ highScore = getScore(mileage)
    /\ LevelHit(barriers, playerPosX)

\* a Playing tick of the session has run
Ticked == scene = "GameOver" \/ (scene = "Playing" /\ updates >= 1)

\* C20: highScore never decreases during a run; from the end of the first
\* Playing tick on, highScore >= getScore() in Playing and in GameOver and
\* right after a restart has reset the Level; so the value written at
\* shutdown is at least the value loaded at startup and at least the score
\* of the session.
C20_HighScoreMonotone ==
    [][/\ highScore' >= highScore
       /\ Ticked' => highScore' >= getScore(mileage')
       /\ scene = "GameOver" /\ scene' = "Playing" =>
             /\ getScore(mileage') = 0
             /\ highScore' >= getScore(mileage')
       /\ running' => highScore' >= LoadHighScore(scoreFile')
       /\ running /\ ~running' =>
             /\ scoreFile'.value >= LoadHighScore(scoreFile)
             /\ Ticked => scoreFile'.value >= getScore(mileage)]_vars

\* C20 witness: a session reached the score 3, and 3 was written when the
\* program was closed right after the restart, at a score of 0
C20_Witness ==
    /\ ~running
    /\ scene = "Playing"
    /\ updates = 0
    /\ getScore(mileage) = 0
    /\ scoreFile = Stored(3)

\* the barrier is below the token line
Below(b) == b.yPos > playerPosY

\* the barrier is above the token line
Above(b) == Fl(b.yPos + b.height) < playerPosY

\* the vertical test of Barrier::hit, taken at an x in the solid part
OnLine(b) == BarrierHit(b, b.leftToHole)

\* C21: in the primary build, when every tick scrolls by a speedY with
\* 0 < speedY <= initialBarrierHeight, no barrier passes the token unchecked:
\* the collision test of every tick is evaluated on the barriers as they are
\* before the scroll; a barrier that is neither below nor above the token
\* line is on it for that test (yPos <= 0.2 <= yPos + height); and no scroll
\* takes a barrier from below the line (yPos > 0.2) to above it (yPos +
\* height < 0.2) or removes it, so between the two some tick tests it while
\* its band is on the line, and ends the session if the token is in its
\* solid part.
C21_NoBarrierUnchecked ==
    [][\A posX \in ScrollXs, speedY \in ScrollYs : ScrollTick(posX, speedY) =>
          LET n == Len(barriers)
              k == IF ~hitRet' /\ Recycles(speedY) THEN 1 ELSE 0
          IN  /\ 0 < speedY /\ speedY <= initialBarrierHeight
              /\ hitRet' = LevelHit(barriers, posX)
              /\ hitRet' => barriers' = barriers
              /\ \A i \in 1 .. n :
                    /\ Below(barriers[i]) \/ Above(barriers[i]) \/ OnLine(barriers[i])
                    /\ OnLine(barriers[i]) =>
                          /\ barriers[i].yPos <= playerPosY
                          /\ playerPosY <= Fl(barriers[i].yPos + barriers[i].height)
                          /\ Solid(barriers[i], posX) => hitRet'
                    /\ Below(barriers[i]) /\ ~hitRet' =>
                          /\ i - k >= 1
                          /\ ~Above(barriers'[i - k])
                          /\ Below(barriers'[i - k]) \/ OnLine(barriers'[i - k])]_vars

\* C21 witness: the first barrier has moved from below the token line to
\* above it, is still on the screen, and the session is still running
C21_Witness ==
    /\ ~hitRet
    /\ hitArg = Lit(5, 10)
    /\ ~Recycled
    /\ updates >= 10
    /\ isVisible(Head(barriers))
    /\ Above(Head(barriers))

=============================================================================
